---- MODULE Spec2Model ----
(***************************************************************************)
(* Model of the Data Profiler & Cleaner (src/app.py): the upload handler   *)
(* with df_profile, the snapshot written to the temp directory, and the    *)
(* clean handler with its five cleaning steps.                             *)
(*                                                                         *)
(* Values.  A CSV field is a tuple of integers: <<>> is the empty field,   *)
(* <<k>> a text field with string code k, <<n, d, f>> the numeric literal  *)
(* n/d, written with a decimal point iff f = 1.  A DataFrame cell is <<>>  *)
(* (NaN), <<n, d>> (the number n/d in lowest terms) or <<k>> (the string   *)
(* with code k).  String codes are ordered as Python orders the strings:   *)
(* the string of the integer literal n has code n, letters have codes from *)
(* TextBase upwards.  Floats are modelled by exact rationals.              *)
(***************************************************************************)
EXTENDS Integers, Sequences, FiniteSets, TLC

VARIABLES files, uploads, req, nCleans, log

vars == <<files, uploads, req, nCleans, log>>

\* ------------------------------------------------------------------ bounds
MaxCells == 4
MaxTallRows == 5
MaxUploads == 2
MaxCleans == 3

\* ------------------------------------------------------------ cell values
NaN == <<>>

Num(n, d) == <<n, d>>

Str(k) == <<k>>

TextBase == 10

EmptyField == <<>>

IntLit(n) == <<n, 1, 0>>

TextField(k) == <<k>>

isna(v) == v = NaN

RECURSIVE GCD(_, _)
GCD(a, b) == IF b = 0 THEN a ELSE GCD(b, a % b)

\* the rational n/d (d > 0, n >= 0) in lowest terms
Rat(n, d) == LET g == GCD(n, d) IN Num(n \div g, d \div g)

RatAdd(x, y) == Rat(x[1] * y[2] + y[1] * x[2], x[2] * y[2])

\* --------------------------------------------------------------- DataFrame
\* pd.read_csv: header names the columns, dtypes are inferred per column.
ColumnNames(df) == {df.columns[j] : j \in 1..Len(df.columns)}

InferDtype(lines, j) ==
    IF Len(lines) = 0 THEN "object"
    ELSE IF \A i \in 1..Len(lines) : Len(lines[i][j]) \in {0, 3}
         THEN IF \E i \in 1..Len(lines) :
                    lines[i][j] = EmptyField \/ lines[i][j][3] = 1
              THEN "float64" ELSE "int64"
         ELSE "object"

ParseField(dtype, t) ==
    IF t = EmptyField THEN NaN
    ELSE IF dtype = "object" THEN Str(t[1])
    ELSE Rat(t[1], t[2])

read_csv(csv) ==
    LET names == {csv.header[j] : j \in 1..Len(csv.header)}
        pos(c) == CHOOSE j \in 1..Len(csv.header) : csv.header[j] = c
        dt == [c \in names |-> InferDtype(csv.lines, pos(c))]
    IN [columns |-> csv.header,
        dtypes  |-> dt,
        rows    |-> [i \in 1..Len(csv.lines) |->
                       [c \in names |-> ParseField(dt[c], csv.lines[i][pos(c)])]]]

\* DataFrame.to_csv(index=False): NaN is written as the empty field, an
\* int64 cell without and a float64 cell with a decimal point, a string
\* verbatim.
FormatCell(dtype, v) ==
    IF isna(v) THEN EmptyField
    ELSE IF Len(v) = 1 THEN (IF v[1] < TextBase THEN IntLit(v[1]) ELSE TextField(v[1]))
    ELSE IF dtype = "int64" THEN <<v[1], v[2], 0>>
    ELSE <<v[1], v[2], 1>>

to_csv(df) ==
    [header |-> df.columns,
     lines  |-> [i \in 1..Len(df.rows) |->
                   [j \in 1..Len(df.columns) |->
                      FormatCell(df.dtypes[df.columns[j]], df.rows[i][df.columns[j]])]]]

\* df[col] as the sequence of its cells
Column(df, c) == [i \in 1..Len(df.rows) |-> df.rows[i][c]]

\* ------------------------------------------------------------- df_profile
\* round(x, 2) of numpy: to the nearest, ties to even; a / b in units of 1/100
RoundHalfEven(a, b) ==
    LET q == a \div b
        r == a % b
    IN IF 2 * r < b THEN q
       ELSE IF 2 * r > b THEN q + 1
       ELSE IF q % 2 = 0 THEN q ELSE q + 1

\* s.isna().sum()
MissingCount(s) == Cardinality({i \in 1..Len(s) : isna(s[i])})

\* round(s.isna().mean() * 100, 2); the mean of an empty Series is NaN
MissingPct(s) ==
    IF Len(s) = 0 THEN NaN
    ELSE Rat(RoundHalfEven(10000 * MissingCount(s), Len(s)), 100)

\* s.nunique(dropna=False)
nuniqueDropna(s) == Cardinality({s[i] : i \in 1..Len(s)} \ {NaN})

nunique(s) ==
    Cardinality({s[i] : i \in 1..Len(s)} \ {NaN})
      + (IF \E i \in 1..Len(s) : isna(s[i]) THEN 1 ELSE 0)

\* s.duplicated(): keep="first", NaN equal to NaN
duplicated(s) == [i \in 1..Len(s) |-> \E j \in 1..(i - 1) : s[j] = s[i]]

CountTrue(mask) == Cardinality({i \in 1..Len(mask) : mask[i]})

ColumnProfile(df, c) ==
    LET s == Column(df, c)
    IN [column      |-> c,
        dtype       |-> df.dtypes[c],
        missing     |-> MissingCount(s),
        missing_pct |-> MissingPct(s),
        unique      |-> nunique(s),
        duplicates  |-> CountTrue(duplicated(s))]

df_profile(df) == [j \in 1..Len(df.columns) |-> ColumnProfile(df, df.columns[j])]

\* ------------------------------------------------------------ clean steps
\* rows of a frame / a sequence selected by a boolean mask, order kept
RECURSIVE SelectMask(_, _)
SelectMask(s, keep) ==
    IF Len(s) = 0 THEN <<>>
    ELSE LET rest == SelectMask(SubSeq(s, 1, Len(s) - 1), SubSeq(keep, 1, Len(s) - 1))
         IN IF keep[Len(s)] THEN Append(rest, s[Len(s)]) ELSE rest

\* the frame restricted to the columns of cols that satisfy keepCol
KeepColumns(df, keepSet) ==
    LET names == ColumnNames(df) \cap keepSet
    IN [columns |-> SelectMask(df.columns, [j \in 1..Len(df.columns) |-> df.columns[j] \in keepSet]),
        dtypes  |-> [c \in names |-> df.dtypes[c]],
        rows    |-> [i \in 1..Len(df.rows) |-> [c \in names |-> df.rows[i][c]]]]

\* df.drop(columns=drop_cols, inplace=True, errors="ignore")
dropInverted(df, drop_cols) == KeepColumns(df, drop_cols)

drop(df, drop_cols) == KeepColumns(df, ColumnNames(df) \ drop_cols)

\* df.drop_duplicates(): an empty frame (no rows or no columns) is returned
\* as it is; otherwise self[-self.duplicated()], keep="first".
drop_duplicatesKeepLast(df) ==
    IF Len(df.columns) = 0 \/ Len(df.rows) = 0 THEN df
    ELSE [df EXCEPT !.rows = SelectMask(df.rows,
             [i \in 1..Len(df.rows) |->
                 ~ \E j \in (i + 1)..Len(df.rows) : df.rows[j] = df.rows[i]])]

drop_duplicates(df) ==
    IF Len(df.columns) = 0 \/ Len(df.rows) = 0 THEN df
    ELSE [df EXCEPT !.rows = SelectMask(df.rows,
             [i \in 1..Len(df.rows) |-> ~ duplicated(df.rows)[i]])]

\* s.count(): the non-missing cells
count(s) == Len(s) - MissingCount(s)

\* df.dropna(axis=1, thresh=thresh): keep the columns with count >= thresh;
\* thresh is the rational thresh[1] / thresh[2]
dropnaStrict(df, thresh) ==
    KeepColumns(df, {c \in ColumnNames(df) : count(Column(df, c)) * thresh[2] > thresh[1]})

dropna(df, thresh) ==
    KeepColumns(df, {c \in ColumnNames(df) : count(Column(df, c)) * thresh[2] >= thresh[1]})

\* df.select_dtypes(include="number") / (exclude="number"), in column order
IsNumber(dtype) == dtype \in {"int64", "float64"}

select_dtypes(df, number) ==
    SelectMask(df.columns, [j \in 1..Len(df.columns) |-> IsNumber(df.dtypes[df.columns[j]]) = number])

\* s.mean(): over the non-missing cells, NaN when there is none
RECURSIVE SumSeq(_)
SumSeq(s) ==
    IF Len(s) = 0 THEN Rat(0, 1)
    ELSE LET rest == SumSeq(SubSeq(s, 1, Len(s) - 1))
         IN IF isna(s[Len(s)]) THEN rest ELSE RatAdd(rest, s[Len(s)])

meanNoSkipna(s) ==
    IF count(s) = 0 \/ MissingCount(s) > 0 THEN NaN
    ELSE LET t == SumSeq(s) IN Rat(t[1], t[2] * count(s))

mean(s) ==
    IF count(s) = 0 THEN NaN
    ELSE LET t == SumSeq(s) IN Rat(t[1], t[2] * count(s))

\* s.mode(dropna=True): the most frequent non-missing values, sorted ascending
Occurrences(s, v) == Cardinality({i \in 1..Len(s) : s[i] = v})

RECURSIVE SortedSeq(_)
SortedSeq(S) ==
    IF S = {} THEN <<>>
    ELSE LET m == CHOOSE x \in S : \A y \in S : x[1] <= y[1]
         IN <<m>> \o SortedSeq(S \ {m})

ModalValues(s) ==
    LET vals == {s[i] : i \in 1..Len(s)} \ {NaN}
    IN {v \in vals : \A w \in vals : Occurrences(s, w) <= Occurrences(s, v)}

modeFirstSeen(s) ==
    LET M == ModalValues(s)
        keep == [i \in 1..Len(s) |-> s[i] \in M /\ ~ \E j \in 1..(i - 1) : s[j] = s[i]]
    IN SelectMask(s, keep)

mode(s) == SortedSeq(ModalValues(s))

\* df[col].fillna(value, inplace=True): the write reaches the frame through
\* the cached column (pandas without copy-on-write); fillna(NaN) changes
\* nothing
fillna(df, c, value) ==
    [df EXCEPT !.rows = [i \in 1..Len(df.rows) |->
        IF isna(df.rows[i][c]) THEN [df.rows[i] EXCEPT ![c] = value] ELSE df.rows[i]]]

\* lines 228-230: drop_cols = request.form.getlist("drop_cols")
StepDropCols(df, form) ==
    IF form.drop_cols # {} THEN drop(df, form.drop_cols) ELSE df

\* lines 232-233
StepDropDuplicatesAlways(df, form) == drop_duplicates(df)

StepDropDuplicates(df, form) ==
    IF form.drop_duplicates THEN drop_duplicates(df) ELSE df

\* lines 235-237: thresh = len(df) * 0.5
StepDropEmptyCols(df, form) ==
    IF form.drop_empty_cols THEN dropna(df, <<Len(df.rows), 2>>) ELSE df

\* lines 239-241
RECURSIVE FillMeans(_, _)
FillMeans(df, cols) ==
    IF Len(cols) = 0 THEN df
    ELSE FillMeans(fillna(df, Head(cols), mean(Column(df, Head(cols)))), Tail(cols))

StepFillNumericMean(df, form) ==
    IF form.fill_numeric_mean THEN FillMeans(df, select_dtypes(df, TRUE)) ELSE df

\* lines 243-247
RECURSIVE FillModes(_, _)
FillModes(df, cols) ==
    IF Len(cols) = 0 THEN df
    ELSE LET m == mode(Column(df, Head(cols)))
         IN FillModes(IF Len(m) # 0 THEN fillna(df, Head(cols), m[1]) ELSE df, Tail(cols))

StepFillCategoricalMode(df, form) ==
    IF form.fill_categorical_mode THEN FillModes(df, select_dtypes(df, FALSE)) ELSE df

\* the values of the local df after lines 224, 230, 233, 237, 241 and 247
CleanStepsStaleThresh(df0, form) ==
    LET d1 == StepDropCols(df0, form)
        d2 == StepDropDuplicates(d1, form)
        d3 == IF form.drop_empty_cols THEN dropna(d2, <<Len(d1.rows), 2>>) ELSE d2
        d4 == StepFillNumericMean(d3, form)
        d5 == StepFillCategoricalMode(d4, form)
    IN <<df0, d1, d2, d3, d4, d5>>

CleanSteps(df0, form) ==
    LET d1 == StepDropCols(df0, form)
        d2 == StepDropDuplicates(d1, form)
        d3 == StepDropEmptyCols(d2, form)
        d4 == StepFillNumericMean(d3, form)
        d5 == StepFillCategoricalMode(d4, form)
    IN <<df0, d1, d2, d3, d4, d5>>

\* ------------------------------------------------------------------ inputs
Headers == {<<"a">>, <<"a", "b">>}

Fields == {EmptyField, IntLit(1), IntLit(2), TextField(TextBase), TextField(TextBase + 1)}

TallFields == {EmptyField, IntLit(1), IntLit(2)}

Tables(h, F, n) == [header : {h}, lines : [1..n -> [1..Len(h) -> F]]]

\* the uploaded files: every table of at most MaxCells cells over Fields and
\* the one-column numeric tables of at most MaxTallRows rows
RawInputs ==
    UNION {UNION {Tables(h, Fields, n) : n \in 0..(MaxCells \div Len(h))} : h \in Headers}
      \cup UNION {Tables(<<"a">>, TallFields, n) : n \in 0..MaxTallRows}

\* the form of a clean request: the ticked drop_cols boxes ("z" is a name the
\* snapshot does not have) and the four check boxes
Forms ==
    [drop_cols : SUBSET {"a", "z"}, drop_duplicates : BOOLEAN,
     drop_empty_cols : BOOLEAN, fill_numeric_mean : BOOLEAN,
     fill_categorical_mode : BOOLEAN]

ServerInputs == UNION {Tables(<<"a">>, {EmptyField, IntLit(1)}, n) : n \in 0..1}

ServerForms == {f \in Forms : f.drop_cols = {} /\ ~ f.drop_empty_cols
                               /\ ~ f.fill_categorical_mode /\ ~ f.drop_duplicates}

Workers == {1, 2}

\* ------------------------------------------------------------------- state
\* files:   the snapshots in the temp directory, path -> CSV text; the path
\*          of the k-th upload (a fresh uuid) is k
\* uploads: per upload the frame, its profile and the path handed to the form
\* req:     per worker thread the clean request it serves
\* nCleans: clean requests received
\* log:     what the clean requests did to snapshots, in order
EmptyCsv == [header |-> <<>>, lines |-> <<>>]

NoForm == [drop_cols |-> {}, drop_duplicates |-> FALSE, drop_empty_cols |-> FALSE,
           fill_numeric_mean |-> FALSE, fill_categorical_mode |-> FALSE]

IdleReq == [pc |-> "idle", temp_csv |-> 0, src |-> EmptyCsv, form |-> NoForm,
            steps |-> <<>>, out |-> EmptyCsv, resp |-> "none"]

Init ==
    /\ files = <<>>
    /\ uploads = <<>>
    /\ req = [w \in Workers |-> IdleReq]
    /\ nCleans = 0
    /\ log = <<>>

\* ----------------------------------------------------------------- actions
\* upload(), lines 180-215, for a file that read_csv accepts
Upload(raw) ==
    LET df == read_csv(raw)
        temp_name == Len(uploads) + 1
    IN /\ uploads' = Append(uploads, [df |-> df, prof |-> df_profile(df), tempname |-> temp_name])
       /\ files' = files @@ (temp_name :> to_csv(df))
       /\ UNCHANGED <<req, nCleans, log>>

\* clean(), lines 219-222: path 0 stands for an absent temp_csv field
CleanCheck(w, path) ==
    /\ req[w].pc \in {"idle", "done"}
    /\ nCleans' = nCleans + 1
    /\ IF path = 0 \/ path \notin DOMAIN files
       THEN /\ req' = [req EXCEPT ![w] = [IdleReq EXCEPT !.pc = "done", !.temp_csv = path,
                                                          !.resp = "expired"]]
            /\ log' = Append(log, [ev |-> "expired", path |-> path])
       ELSE /\ req' = [req EXCEPT ![w] = [IdleReq EXCEPT !.pc = "read", !.temp_csv = path]]
            /\ log' = log
    /\ UNCHANGED <<files, uploads>>

\* clean(), line 224: pd.read_csv raises FileNotFoundError on a missing file
CleanRead(w) ==
    /\ req[w].pc = "read"
    /\ IF req[w].temp_csv \in DOMAIN files
       THEN /\ req' = [req EXCEPT ![w].pc = "remove", ![w].src = files[req[w].temp_csv]]
            /\ log' = Append(log, [ev |-> "read", path |-> req[w].temp_csv])
       ELSE /\ req' = [req EXCEPT ![w].pc = "done", ![w].resp = "error"]
            /\ log' = Append(log, [ev |-> "raise", path |-> req[w].temp_csv])
    /\ UNCHANGED <<files, uploads, nCleans>>

\* clean(), line 225: os.remove raises FileNotFoundError on a missing file
CleanRemove(w) ==
    /\ req[w].pc = "remove"
    /\ IF req[w].temp_csv \in DOMAIN files
       THEN /\ files' = [q \in DOMAIN files \ {req[w].temp_csv} |-> files[q]]
            /\ req' = [req EXCEPT ![w].pc = "transform"]
            /\ log' = Append(log, [ev |-> "remove", path |-> req[w].temp_csv])
       ELSE /\ files' = files
            /\ req' = [req EXCEPT ![w].pc = "done", ![w].resp = "error"]
            /\ log' = Append(log, [ev |-> "raise", path |-> req[w].temp_csv])
    /\ UNCHANGED <<uploads, nCleans>>

\* clean(), lines 228-252: the cleaning steps on the local df, then the
\* cleaned CSV is written and sent
CleanTransform(w, form) ==
    /\ req[w].pc = "transform"
    /\ LET steps == CleanSteps(read_csv(req[w].src), form)
       IN req' = [req EXCEPT ![w].pc = "done", ![w].form = form, ![w].steps = steps,
                             ![w].out = to_csv(steps[6]), ![w].resp = "file"]
    /\ log' = Append(log, [ev |-> "file", path |-> req[w].temp_csv])
    /\ UNCHANGED <<files, uploads, nCleans>>

\* one upload followed by one clean request, over all inputs
Next ==
    \/ \E raw \in RawInputs : Len(uploads) = 0 /\ Upload(raw)
    \/ \E path \in 0..1 : nCleans = 0 /\ CleanCheck(1, path)
    \/ CleanRead(1)
    \/ CleanRemove(1)
    \/ \E form \in Forms : CleanTransform(1, form)

Spec == Init /\ [][Next]_vars

\* the threaded server: uploads and clean requests of two worker threads
\* interleave at the file system calls
NextServer ==
    \/ \E raw \in ServerInputs : Len(uploads) < MaxUploads /\ Upload(raw)
    \/ \E w \in Workers, path \in 0..MaxUploads : nCleans < MaxCleans /\ CleanCheck(w, path)
    \/ \E w \in Workers : CleanRead(w)
    \/ \E w \in Workers : CleanRemove(w)
    \/ \E w \in Workers, form \in ServerForms : CleanTransform(w, form)

SpecServer == Init /\ [][NextServer]_vars

\* ------------------------------------------------------------------ claims
\* a clean request that has sent its cleaned file
Cleaned(w) == req[w].pc = "done" /\ req[w].resp = "file"

DistinctRows(df) == {df.rows[i] : i \in 1..Len(df.rows)}

NonMissing(df, c) == Cardinality({i \in 1..Len(df.rows) : df.rows[i][c] # NaN})

\* C1: with drop_duplicates and drop_empty_cols both ticked, a column of the
\* frame left by the drop-columns step survives the sparse-column step iff,
\* among the distinct rows of that frame (the table after duplicate removal),
\* its non-missing cells are at least half of those rows: both the row count
\* and the non-missing count are those of the post-deduplication table.
C1_SparseUsesDeduplicated ==
    \A w \in Workers :
        (Cleaned(w) /\ req[w].form.drop_duplicates /\ req[w].form.drop_empty_cols) =>
            LET d1 == req[w].steps[2]
                d3 == req[w].steps[4]
                D  == DistinctRows(d1)
            IN \A c \in ColumnNames(d1) :
                   (c \in ColumnNames(d3)) <=>
                       (2 * Cardinality({r \in D : r[c] # NaN}) >= Cardinality(D))

\* a clean with both options where the original table would have decided
\* differently for some column
C1_Witness ==
    \E w \in Workers :
        /\ Cleaned(w) /\ req[w].form.drop_duplicates /\ req[w].form.drop_empty_cols
        /\ LET d1 == req[w].steps[2]
               d3 == req[w].steps[4]
           IN /\ Len(req[w].steps[3].rows) < Len(d1.rows)
              /\ \E c \in ColumnNames(d1) :
                     (c \in ColumnNames(d3)) # (2 * NonMissing(d1, c) >= Len(d1.rows))

\* C2: with drop_empty_cols ticked, a column of the current frame (n rows) is
\* removed iff its non-missing count is strictly less than n/2; with n = 0
\* nothing is removed; the surviving columns are otherwise untouched.
C2_SparseThreshold ==
    \A w \in Workers :
        (Cleaned(w) /\ req[w].form.drop_empty_cols) =>
            LET d2 == req[w].steps[3]
                d3 == req[w].steps[4]
                n  == Len(d2.rows)
            IN /\ \A c \in ColumnNames(d2) :
                      (c \notin ColumnNames(d3)) <=> (2 * NonMissing(d2, c) < n)
               /\ n = 0 => d3 = d2
               /\ Len(d3.rows) = n
               /\ \A c \in ColumnNames(d3) : Column(d3, c) = Column(d2, c)

\* a five-row column with three cells missing (60 %) has been removed
C2_Witness ==
    \E w \in Workers :
        /\ Cleaned(w) /\ req[w].form.drop_empty_cols
        /\ LET d2 == req[w].steps[3]
           IN /\ Len(d2.rows) = 5
              /\ \E c \in ColumnNames(d2) :
                     NonMissing(d2, c) = 2 /\ c \notin ColumnNames(req[w].steps[4])

\* C3: a clean with nothing ticked sends back the snapshot it read: the same
\* header, the same lines, the same fields (empty fields included).
C3_NoOptionsIdentity ==
    \A w \in Workers :
        (Cleaned(w) /\ req[w].form = NoForm) =>
            /\ req[w].out = req[w].src
            /\ req[w].steps[6] = req[w].steps[1]

\* such a clean of a snapshot with a repeated row, a missing cell and a
\* float64 column
C3_Witness ==
    \E w \in Workers :
        /\ Cleaned(w) /\ req[w].form = NoForm
        /\ LET d0 == req[w].steps[1]
           IN /\ \E i, j \in 1..Len(d0.rows) : i < j /\ d0.rows[i] = d0.rows[j]
              /\ \E c \in ColumnNames(d0) :
                     d0.dtypes[c] = "float64" /\ NonMissing(d0, c) \in 1..(Len(d0.rows) - 1)

PositionIn(seq, c) == CHOOSE j \in 1..Len(seq) : seq[j] = c

\* C4: the drop-columns step never raises, removes exactly the named columns
\* that exist, and leaves every other column (name, relative position, dtype
\* and cells) as it was; absent names have no effect.
C4_DropColumns ==
    \A w \in Workers :
        /\ req[w].pc = "done" /\ req[w].steps # <<>> => req[w].resp = "file"
        /\ Cleaned(w) =>
            LET d0 == req[w].steps[1]
                d1 == req[w].steps[2]
            IN /\ ColumnNames(d1) = ColumnNames(d0) \ req[w].form.drop_cols
               /\ Len(d1.columns) = Cardinality(ColumnNames(d1))
               /\ \A j, k \in 1..Len(d1.columns) :
                      j < k => PositionIn(d0.columns, d1.columns[j])
                                  < PositionIn(d0.columns, d1.columns[k])
               /\ Len(d1.rows) = Len(d0.rows)
               /\ \A c \in ColumnNames(d1) :
                      d1.dtypes[c] = d0.dtypes[c] /\ Column(d1, c) = Column(d0, c)

\* a form naming an existing and an absent column, applied to two columns
C4_Witness ==
    \E w \in Workers :
        /\ Cleaned(w)
        /\ req[w].form.drop_cols = {"a", "z"}
        /\ req[w].steps[1].columns = <<"a", "b">>
        /\ req[w].steps[2].columns = <<"b">>
        /\ Len(req[w].steps[1].rows) = 2

FirstIndex(rows, r) == CHOOSE i \in 1..Len(rows) : rows[i] = r /\ \A j \in 1..(i - 1) : rows[j] # r

KeepsFirstOccurrences(d1, d2) ==
    /\ d2.columns = d1.columns
    /\ d2.dtypes = d1.dtypes
    /\ \A i, j \in 1..Len(d2.rows) : i < j => d2.rows[i] # d2.rows[j]
    /\ DistinctRows(d2) = DistinctRows(d1)
    /\ \A i, j \in 1..Len(d2.rows) :
           i < j => FirstIndex(d1.rows, d2.rows[i]) < FirstIndex(d1.rows, d2.rows[j])

\* C5 as stated: with drop_duplicates ticked the step keeps, for each distinct
\* row of its input, exactly the first occurrence, in the original order; no
\* two rows of the result are equal.
C5_AsStated ==
    \A w \in Workers :
        (Cleaned(w) /\ req[w].form.drop_duplicates) =>
            KeepsFirstOccurrences(req[w].steps[2], req[w].steps[3])

\* C5 amended: the same when at least one column remains; when no column
\* remains the step returns its input unchanged, with all its rows.
C5_KeepFirstWhenColumns ==
    \A w \in Workers :
        (Cleaned(w) /\ req[w].form.drop_duplicates) =>
            IF Len(req[w].steps[2].columns) > 0
            THEN KeepsFirstOccurrences(req[w].steps[2], req[w].steps[3])
            ELSE req[w].steps[3] = req[w].steps[2]

\* duplicates were removed and at least two distinct rows remain, the first
\* row of the input being one of the repeated ones
C5_Witness ==
    \E w \in Workers :
        /\ Cleaned(w) /\ req[w].form.drop_duplicates
        /\ LET d1 == req[w].steps[2]
               d2 == req[w].steps[3]
           IN /\ Len(d1.columns) > 0
              /\ Len(d2.rows) >= 2
              /\ Len(d2.rows) < Len(d1.rows)
              /\ \E j \in 2..Len(d1.rows) : d1.rows[j] = d1.rows[1]

\* C6: after fill_numeric_mean every numeric column that had a non-missing
\* value at that step has no missing cell; after fill_categorical_mode every
\* non-numeric column that had one has none; a column without any non-missing
\* value is left as it was, and the request does not raise.
C6_FillLeavesNoMissing ==
    \A w \in Workers :
        Cleaned(w) =>
            LET d3 == req[w].steps[4]
                d5 == req[w].steps[6]
                filled(c) == IF NonMissing(d3, c) > 0
                             THEN \A i \in 1..Len(d5.rows) : d5.rows[i][c] # NaN
                             ELSE Column(d5, c) = Column(d3, c)
            IN /\ ColumnNames(d5) = ColumnNames(d3)
               /\ req[w].form.fill_numeric_mean =>
                      \A c \in ColumnNames(d3) : IsNumber(d3.dtypes[c]) => filled(c)
               /\ req[w].form.fill_categorical_mode =>
                      \A c \in ColumnNames(d3) : ~ IsNumber(d3.dtypes[c]) => filled(c)

\* a float64 column with a missing cell was filled with the mean 3/2
C6_Witness ==
    \E w \in Workers :
        /\ Cleaned(w) /\ req[w].form.fill_numeric_mean
        /\ \E c \in ColumnNames(req[w].steps[4]) :
               \E i \in 1..Len(req[w].steps[4].rows) :
                   /\ req[w].steps[4].rows[i][c] = NaN
                   /\ req[w].steps[6].rows[i][c] = Num(3, 2)

Frequency(s, v) == Cardinality({i \in 1..Len(s) : s[i] = v})

MostFrequent(s) ==
    {v \in {s[i] : i \in 1..Len(s)} \ {NaN} :
        \A i \in 1..Len(s) : s[i] # NaN => Frequency(s, s[i]) <= Frequency(s, v)}

FirstSeen(s, M) == s[CHOOSE i \in 1..Len(s) : s[i] \in M /\ \A j \in 1..(i - 1) : s[j] \notin M]

Smallest(M) == CHOOSE v \in M : \A u \in M : v[1] <= u[1]

\* the non-numeric columns in which several values tie for the top frequency
TiedColumns(df) ==
    {c \in ColumnNames(df) :
        ~ IsNumber(df.dtypes[c]) /\ Cardinality(MostFrequent(Column(df, c))) >= 2}

\* C7 as stated: on a tie every missing cell of the column is filled with the
\* tied value that occurs first in row order.
C7_AsStated ==
    \A w \in Workers :
        (Cleaned(w) /\ req[w].form.fill_categorical_mode) =>
            LET d4 == req[w].steps[5]
                d5 == req[w].steps[6]
            IN \A c \in TiedColumns(d4) : \A i \in 1..Len(d4.rows) :
                   d4.rows[i][c] = NaN =>
                       d5.rows[i][c] = FirstSeen(Column(d4, c), MostFrequent(Column(d4, c)))

\* C7 amended: on a tie every missing cell of the column is filled with the
\* tied value that is smallest in the sort order of the values.
C7_TieFilledWithSmallest ==
    \A w \in Workers :
        (Cleaned(w) /\ req[w].form.fill_categorical_mode) =>
            LET d4 == req[w].steps[5]
                d5 == req[w].steps[6]
            IN \A c \in TiedColumns(d4) : \A i \in 1..Len(d4.rows) :
                   d4.rows[i][c] = NaN =>
                       d5.rows[i][c] = Smallest(MostFrequent(Column(d4, c)))

\* a tie whose first-seen value is not the smallest, and a cell to fill
C7_Witness ==
    \E w \in Workers :
        /\ Cleaned(w) /\ req[w].form.fill_categorical_mode
        /\ LET d4 == req[w].steps[5]
           IN \E c \in TiedColumns(d4) :
                  /\ \E i \in 1..Len(d4.rows) : d4.rows[i][c] = NaN
                  /\ FirstSeen(Column(d4, c), MostFrequent(Column(d4, c)))
                         # Smallest(MostFrequent(Column(d4, c)))

\* C8 as stated: for a frame without rows df_profile reports missing_pct = 0
\* for every column; with n >= 1 rows missing_pct is missing / n * 100
\* rounded to two decimals (a multiple of 1/100 nearest to it).
C8_AsStated ==
    \A u \in 1..Len(uploads) : \A j \in 1..Len(uploads[u].prof) :
        LET p == uploads[u].prof[j]
            n == Len(uploads[u].df.rows)
            m == Len(uploads[u].df.rows) - NonMissing(uploads[u].df, p.column)
        IN IF n = 0 THEN p.missing_pct = Num(0, 1)
           ELSE /\ Len(p.missing_pct) = 2
                /\ 100 % p.missing_pct[2] = 0
                /\ LET h == p.missing_pct[1] * (100 \div p.missing_pct[2])
                       e == h * n - 10000 * m
                   IN 2 * e <= n /\ 2 * e >= 0 - n

Events(kind, path) == {k \in 1..Len(log) : log[k].ev = kind /\ log[k].path = path}

\* C9 as stated: whatever the interleaving, at most one clean request gets a
\* cleaned file out of a snapshot, and no clean request raises: one that
\* names a missing or already consumed snapshot gets the 'Session expired'
\* response.
C9_AsStated ==
    /\ \A path \in 1..Len(uploads) : Cardinality(Events("file", path)) <= 1
    /\ \A k \in 1..Len(log) : log[k].ev # "raise"
    /\ \A w \in Workers : req[w].resp # "error"

\* C10: for every column of an uploaded frame, unique + duplicates = rowCount,
\* unique being the number of distinct cell values with NaN as one value and
\* duplicates the number of cells equal to an earlier cell of the column.
C10_UniquePlusDuplicates ==
    \A u \in 1..Len(uploads) : \A j \in 1..Len(uploads[u].prof) :
        LET p == uploads[u].prof[j]
            s == Column(uploads[u].df, p.column)
        IN /\ p.unique + p.duplicates = Len(s)
           /\ p.unique = Cardinality({s[i] : i \in 1..Len(s)})
           /\ p.duplicates = Cardinality({i \in 1..Len(s) : \E k \in 1..(i - 1) : s[k] = s[i]})

\* the column [1, NaN, 1, 2]: unique = 3, duplicates = 1
C10_Witness ==
    \E u \in 1..Len(uploads) : \E j \in 1..Len(uploads[u].prof) :
        /\ Column(uploads[u].df, uploads[u].prof[j].column) = <<Num(1, 1), NaN, Num(1, 1), Num(2, 1)>>
        /\ uploads[u].prof[j].unique = 3
        /\ uploads[u].prof[j].duplicates = 1

====
